---- MODULE Spec2Model ----
(***************************************************************************)
(* Model of the MFA alignment service: the request pipeline of             *)
(* main.py / aligner.py and the RMS endpoint refiner of rms_refiner.py.    *)
(*                                                                         *)
(* Time.  Word boundaries are Python floats rounded to 4 decimals, so a    *)
(* boundary is an integer number of ticks (1 tick = 1e-4 s).  Inside the   *)
(* refiner, times are exact rationals, written as integers in units of     *)
(* 1/(TicksPerSecond * sr) s: one tick is sr units, one sample is          *)
(* TicksPerSecond units.  Floating-point noise is not modelled.            *)
(***************************************************************************)
EXTENDS Integers, Sequences, FiniteSets, TLC

VARIABLES
    aligner,        \* main.py's global: [ready, available_languages]
    pc,             \* per invocation of align_audio: the step it is at
    request,        \* per invocation: the AlignRequest
    outer,          \* per invocation: align_audio's tmpdir
    inner,          \* per invocation: MFAAligner.align's tmpdir
    words,          \* per invocation: the local variable words
    outcome,        \* per invocation: the HTTP response [status, detail, body]
    disk,           \* the file system: [dirs, files]
    hist,           \* per invocation, history: steps begun, paths created, failure cause
    refine_call,    \* a direct call of refine_word_endpoints: [at, y, sr, words, ret]
    parse_call      \* a direct call of _parse_textgrid: [at, tg, ret]

pipeline_vars == <<aligner, pc, request, outer, inner, words, outcome, disk, hist>>

-----------------------------------------------------------------------------
(* Bounds of the model *)

MaxBlocks == 4      \* blocks of constant amplitude in a waveform
BlockLen == 15      \* samples per block
MaxWords == 2       \* words in a word list handed to the refiner
MaxTiers == 2       \* tiers of a TextGrid
MaxIntervals == 2   \* intervals of a tier

Max(a, b) == IF a >= b THEN a ELSE b
Min(a, b) == IF a <= b THEN a ELSE b

-----------------------------------------------------------------------------
(* rms_refiner.py *)

TicksPerSecond == 10000     \* round(x, 4)
search_window_ms == 80
frame_ms == 5
padding_ms == 5
threshold_db == 0 - 40
back_ms == 20               \* original_end - 0.020
amin == 1                   \* amplitude_to_db's amin; amplitudes are in units of amin

\* round(x, 4): x in units of 1/q tick, result in ticks, ties to even.
Round4(x, q) ==
    LET f == x \div q
        r == x % q
    IN  IF 2 * r < q THEN f
        ELSE IF 2 * r > q THEN f + 1
        ELSE IF f % 2 = 0 THEN f ELSE f + 1

\* y[k], 0-based; a waveform is [len |-> samples, levels |-> amplitude per block].
Sample(y, k) == y.levels[(k \div BlockLen) + 1]

\* len(y) / sr
Duration(y) == y.len * TicksPerSecond

frame_samples(sr) == (frame_ms * sr) \div 1000
hop_samples(sr) == frame_samples(sr) \div 2

\* max(0, original_end - 0.020)
search_start(sr, word) == Max(0, word.end * sr - back_ms * 10 * sr)
\* min(duration, original_end + search_window_ms / 1000)
search_end(y, sr, word) == Min(Duration(y), word.end * sr + search_window_ms * 10 * sr)

start_sample(sr, word) == search_start(sr, word) \div TicksPerSecond
end_sample(y, sr, word) == search_end(y, sr, word) \div TicksPerSecond

\* len(y[start_sample:end_sample]): a slice is clipped to the array.
SegmentLen(y, sr, word) ==
    Max(0, Min(end_sample(y, sr, word), y.len) - Min(start_sample(sr, word), y.len))

\* librosa.feature.rms(center=True): the segment is zero-padded by
\* frame_length // 2 on both sides; frame t is padded[t*hop : t*hop + frame_length].
PaddedSample(y, s0, seglen, pad, k) ==
    IF k - pad < 0 \/ k - pad >= seglen THEN 0 ELSE Sample(y, s0 + k - pad)

RECURSIVE FrameSumSq(_, _, _, _, _, _)
FrameSumSq(y, s0, seglen, pad, first, n) ==
    IF n = 0 THEN 0
    ELSE LET a == PaddedSample(y, s0, seglen, pad, first)
         IN  a * a + FrameSumSq(y, s0, seglen, pad, first + 1, n - 1)

NumFrames(seglen, F, hop) == 1 + (seglen + 2 * (F \div 2) - F) \div hop

\* F * mean-square of every frame of the segment, as librosa.feature.rms frames it.
RmsFrames(y, sr, word) ==
    LET F == frame_samples(sr)
        hop == hop_samples(sr)
        seglen == SegmentLen(y, sr, word)
        s0 == start_sample(sr, word)
    IN  [t \in 0 .. NumFrames(seglen, F, hop) - 1 |->
            FrameSumSq(y, s0, seglen, F \div 2, t * hop, F)]

\* rms_db < threshold_db, where rms_db = amplitude_to_db(rms, ref=np.max):
\* 10*log10(max(amin^2, ms)) - 10*log10(max(amin^2, max ms)) < threshold_db.
\* (top_db only raises values below max - 80 dB, which stay below -40 dB.)
BelowThreshold(ss, maxss, F) ==
    LET ratio == 10 ^ ((0 - threshold_db) \div 10)
        floor == F * amin * amin
    IN  Max(floor, ss) < (Max(floor, maxss) + ratio - 1) \div ratio

MaxOf(S) == CHOOSE m \in S : \A x \in S : x <= m
MinOf(S) == CHOOSE m \in S : \A x \in S : m <= x

\* np.where(rms_db < threshold_db)[0]
silence_frames(y, sr, word) ==
    LET rms == RmsFrames(y, sr, word)
        maxss == MaxOf({rms[t] : t \in DOMAIN rms})
    IN  {t \in DOMAIN rms : BelowThreshold(rms[t], maxss, frame_samples(sr))}

\* new_end = max(new_end, original_end); new_end = min(new_end, duration)
ClampEnd(new_end, original_end, duration) == Min(Max(new_end, original_end), duration)

\* Mutant of NoSilenceEnd: the padding is forgotten.
NoSilenceEndNoPadding(original_end, duration, sr) == Min(original_end, duration)

\* new_end = min(original_end + padding_ms / 1000, duration)
NoSilenceEnd(original_end, duration, sr) == Min(original_end + padding_ms * 10 * sr, duration)

\* Mutant of TooShort: a segment shorter than a frame is analysed all the same.
TooShortNever(y, sr, word) == FALSE

\* len(segment) < frame_samples
TooShort(y, sr, word) == SegmentLen(y, sr, word) < frame_samples(sr)

\* The body of the loop over words: the word appended to refined_words.
RefineWord(y, sr, word) ==
    LET original_end == word.end * sr
        duration == Duration(y)
    IN  IF end_sample(y, sr, word) <= start_sample(sr, word) THEN word
        ELSE IF TooShort(y, sr, word) THEN word
        ELSE IF DOMAIN RmsFrames(y, sr, word) = {} THEN word
        ELSE LET silent == silence_frames(y, sr, word)
                 new_end ==
                    IF silent # {}
                    THEN LET silence_sample == MinOf(silent) * hop_samples(sr)
                             found == search_start(sr, word)
                                        + silence_sample * TicksPerSecond
                                        + padding_ms * 10 * sr
                         IN  ClampEnd(found, original_end, duration)
                    ELSE NoSilenceEnd(original_end, duration, sr)
             IN  [word |-> word.word, start |-> word.start, end |-> Round4(new_end, sr)]

\* Mutant of RefineLoop: a word's window starts from the refined end of the
\* word before it when that end is later than the word's own.
RECURSIVE RefineLoopCoupled(_, _, _, _)
RefineLoopCoupled(y, sr, todo, refined_words) ==
    IF todo = <<>> THEN refined_words
    ELSE LET word == Head(todo)
             prev == IF refined_words = <<>> THEN word.end
                     ELSE refined_words[Len(refined_words)].end
             moved == [word EXCEPT !.end = Max(word.end, prev)]
         IN  RefineLoopCoupled(y, sr, Tail(todo),
                               Append(refined_words, RefineWord(y, sr, moved)))

\* refined_words = []; for word in words: ... refined_words.append(...)
RECURSIVE RefineLoop(_, _, _, _)
RefineLoop(y, sr, todo, refined_words) ==
    IF todo = <<>> THEN refined_words
    ELSE RefineLoop(y, sr, Tail(todo), Append(refined_words, RefineWord(y, sr, Head(todo))))

\* Mutant of refine_word_endpoints: the loop starts at the second word.
refine_word_endpoints_from_second(y, sr, word_list) ==
    IF word_list = <<>> THEN <<>> ELSE RefineLoop(y, sr, Tail(word_list), <<>>)

\* refined_words = []; for word in words: ...; return refined_words
refine_word_endpoints(y, sr, word_list) == RefineLoop(y, sr, word_list, <<>>)

-----------------------------------------------------------------------------
(* aligner.py: _parse_textgrid *)

\* A text is a sequence of characters.  A TextGrid is a sequence of tiers
\* [name, intervals]; an interval is [mark, minTime, maxTime], its times in
\* units of 1e-5 s (TimeUnitsPerTick units to the tick).
TimeUnitsPerTick == 10

Whitespace == {" ", "\t"}

RECURSIVE LStrip(_)
LStrip(s) == IF s # <<>> /\ Head(s) \in Whitespace THEN LStrip(Tail(s)) ELSE s

RECURSIVE RStrip(_)
RStrip(s) ==
    IF s # <<>> /\ s[Len(s)] \in Whitespace THEN RStrip(SubSeq(s, 1, Len(s) - 1)) ELSE s

\* str.strip()
Strip(s) == RStrip(LStrip(s))

LowerChar(c) ==
    CASE c = "W" -> "w" [] c = "O" -> "o" [] c = "R" -> "r" [] c = "D" -> "d"
      [] c = "S" -> "s" [] OTHER -> c

\* str.lower()
Lower(s) == [i \in DOMAIN s |-> LowerChar(s[i])]

WordsTierName == <<"w", "o", "r", "d", "s">>

\* tier.name.lower() == "words"
IsWordsTier(tier) == Lower(tier.name) = WordsTierName

\* Mutant of KeepInterval: the label is not stripped before the test.
KeepIntervalUnstripped(interval) == interval.mark # <<>>

\* if interval.mark and interval.mark.strip()
KeepInterval(interval) == interval.mark # <<>> /\ Strip(interval.mark) # <<>>

WordOf(interval) ==
    [word |-> Strip(interval.mark),
     start |-> Round4(interval.minTime, TimeUnitsPerTick),
     end |-> Round4(interval.maxTime, TimeUnitsPerTick)]

\* for interval in tier: ... words.append(...)
RECURSIVE ParseIntervals(_, _)
ParseIntervals(intervals, word_list) ==
    IF intervals = <<>> THEN word_list
    ELSE ParseIntervals(Tail(intervals),
            IF KeepInterval(Head(intervals))
            THEN Append(word_list, WordOf(Head(intervals)))
            ELSE word_list)

\* for tier in tg: if tier.name.lower() == "words": ...; break
RECURSIVE ParseTiers(_)
ParseTiers(tiers) ==
    IF tiers = <<>> THEN <<>>
    ELSE IF IsWordsTier(Head(tiers)) THEN ParseIntervals(Head(tiers).intervals, <<>>)
    ELSE ParseTiers(Tail(tiers))

\* _parse_textgrid on a readable TextGrid
parse_textgrid(tg) == ParseTiers(tg)

-----------------------------------------------------------------------------
(* Inputs of direct calls of the refiner *)

SampleRates == {600}
\* Amplitudes in units of amin: digital silence, a quiet level 30 dB below the
\* loud one, and a loud level.
Levels == {0, 30, 1000}

\* Nominal duration of the modelled waveforms in ticks, at rate sr.
NominalTicks(sr) == (MaxBlocks * BlockLen * TicksPerSecond) \div sr

Waveforms ==
    {[len |-> MaxBlocks * BlockLen - cut, levels |-> lv] :
        cut \in {0, 2}, lv \in [1 .. MaxBlocks -> Levels]}

WordEnds(sr) ==
    LET D == NominalTicks(sr)
    IN  {0, D - 100, D - 40, D + 10, D + 100, D + 160, D + 300}

\* A word of 10 ms (less at the very start of the audio) that ends at e.
MkWord(k, e) ==
    [word |-> IF k % 2 = 1 THEN <<"a">> ELSE <<"b">>, start |-> Max(0, e - 100), end |-> e]

\* Word lists in time order, as the intervals of a tier are.
WordLists(sr) ==
    UNION {{[k \in 1 .. n |-> MkWord(k, es[k])] :
                es \in {f \in [1 .. n -> WordEnds(sr)] :
                            \A k \in 1 .. n - 1 : f[k] <= f[k + 1]}} :
            n \in 0 .. MaxWords}

\* at is "none" (no direct call), "called" or "returned"; y and ret are
\* one-element sequences once they exist.
NoCall == [at |-> "none", y |-> <<>>, sr |-> 0, words |-> <<>>, ret |-> <<>>]

NoParse == [at |-> "none", tg |-> <<>>, ret |-> <<>>]

-----------------------------------------------------------------------------
(* Inputs of direct calls of the parser *)

TierNames ==
    {<<"w", "o", "r", "d", "s">>, <<"W", "o", "r", "D", "S">>,
     <<"p", "h", "o", "n", "e", "s">>}

Marks == {<<>>, <<" ", "\t">>, <<"a">>, <<" ", "b", " ">>}

MarkSeqs == UNION {[1 .. n -> Marks] : n \in 0 .. MaxIntervals}

\* The marks rotated left by r places.
Rotate(ms, r) ==
    [j \in DOMAIN ms |-> ms[((j - 1 + r) % Len(ms)) + 1]]

\* Tier p of a TextGrid: the marks rotated by p - 1, intervals laid end to end.
MkTier(name, ms, p) ==
    [name |-> name,
     intervals |->
        [j \in DOMAIN ms |->
            [mark |-> Rotate(ms, p - 1)[j],
             minTime |-> (j - 1) * 4567 + (p - 1) * 13,
             maxTime |-> j * 4567 + (p - 1) * 13]]]

TextGrids ==
    UNION {{[p \in 1 .. n |-> MkTier(names[p], ms, p)] :
                names \in [1 .. n -> TierNames], ms \in MarkSeqs} :
            n \in 0 .. MaxTiers}

-----------------------------------------------------------------------------
(* aligner.py and main.py: the request pipeline *)

LANGUAGE_MODELS ==
    [l \in {"en", "ru", "es", "de", "pt"} |->
        CASE l = "en" -> [acoustic |-> "english_us_arpa", dictionary |-> "english_us_arpa"]
          [] l = "ru" -> [acoustic |-> "russian_mfa", dictionary |-> "russian_mfa"]
          [] l = "es" -> [acoustic |-> "spanish_mfa", dictionary |-> "spanish_mfa"]
          [] l = "de" -> [acoustic |-> "german_mfa", dictionary |-> "german_mfa"]
          [] l = "pt" -> [acoustic |-> "portuguese_mfa", dictionary |-> "portuguese_mfa"]]

\* list(LANGUAGE_MODELS.keys())
LanguageKeys == <<"en", "ru", "es", "de", "pt">>

\* MFAAligner.get_model_name
get_model_name(language) ==
    IF language \in DOMAIN LANGUAGE_MODELS THEN LANGUAGE_MODELS[language].acoustic
    ELSE "unknown"

Range(f) == {f[x] : x \in DOMAIN f}

\* Mutant of LanguageRejected: align_audio does not check the language.
LanguageNeverRejected(language) == FALSE

\* request.language not in aligner.available_languages
LanguageRejected(language) == language \notin Range(aligner.available_languages)

\* language not in LANGUAGE_MODELS
LanguageUnknown(language) == language \notin DOMAIN LANGUAGE_MODELS

DirNames == {"tmpA", "tmpB", "tmpC", "tmpD"}
FileNames == {"input.wav", "audio.wav", "audio.txt", "audio.TextGrid"}
Paths == DirNames \X FileNames

\* A file is [by |-> creating invocation (0: no such file), data |-> <<content>>].
NoFile == [by |-> 0, data |-> <<>>]

\* Mutant of Exists: every path is taken to exist.
ExistsAlways(d, path) == TRUE

\* os.path.exists
Exists(d, path) == d.files[path].by # 0

\* Mutant of FreshDir: mkdtemp may hand out the name of an existing directory.
FreshDirAny(d, name) == TRUE

\* tempfile mkdtemp: only a name no existing directory has is handed out.
FreshDir(d, name) == d.dirs[name] = 0

\* tempfile mkdtemp: a directory under a name no existing directory has.
MkDir(d, name, i) == [d EXCEPT !.dirs[name] = i]

WriteFile(d, path, i, content) == [d EXCEPT !.files[path] = [by |-> i, data |-> <<content>>]]

\* TemporaryDirectory.cleanup: the directory and everything under it.
RemoveTree(d, name) ==
    [dirs |-> [n \in DirNames |-> IF n = name THEN 0 ELSE d.dirs[n]],
     files |-> [p \in Paths |-> IF p[1] = name THEN NoFile ELSE d.files[p]]]

\* An exception leaves main.py's with block.
LeaveOuter(d, i) == RemoveTree(d, outer[i])

\* Mutant of LeaveInner: align's tmpdir is removed on the success path only.
LeaveInnerLeaking(d, i) == RemoveTree(d, outer[i])

\* An exception leaves aligner.py's with block, then main.py's.
LeaveInner(d, i) == RemoveTree(RemoveTree(d, inner[i]), outer[i])

\* Exceptions: [type, msg], msg the pieces of str(e).
RuntimeError(msg) == [type |-> "RuntimeError", msg |-> msg]
ValueError(msg) == [type |-> "ValueError", msg |-> msg]
TimeoutExpired(cmd, seconds) ==
    [type |-> "TimeoutExpired",
     msg |-> <<"Command ", cmd, " timed out after ", seconds, " seconds">>]
\* raise RuntimeError(f"ffmpeg resample failed: {result.stderr}")
ResampleFailed(stderr) == RuntimeError(<<"ffmpeg resample failed: ", stderr>>)
\* raise RuntimeError(f"MFA failed: {result.stderr}")
MfaFailed(stderr) == RuntimeError(<<"MFA failed: ", stderr>>)
OtherError(type) == [type |-> type, msg |-> <<type>>]

NoOutcome == [status |-> 0, detail |-> <<>>, body |-> <<>>]

\* raise HTTPException(status_code=400, ...)
NotSupported(language) ==
    [status |-> 400,
     detail |-> <<"Language '", language, "' not supported. Available: ">>
                    \o aligner.available_languages,
     body |-> <<>>]

\* Mutant of AlignmentFailed: the handler hides the exception's text.
AlignmentFailedOpaque(e) ==
    [status |-> 500, detail |-> <<"Alignment failed">>, body |-> <<>>]

\* except Exception as e: raise HTTPException(500, f"Alignment failed: {str(e)}")
AlignmentFailed(e) ==
    [status |-> 500, detail |-> <<"Alignment failed: ">> \o e.msg, body |-> <<>>]

\* Mutant of total_duration: the end of the first word is taken.
total_duration_of_first(ws) == IF ws # <<>> THEN ws[1].end ELSE 0

\* words[-1]["end"] if words else 0.0
total_duration(ws) == IF ws # <<>> THEN ws[Len(ws)].end ELSE 0

\* AlignResponse(...)
AlignResponse(req, ws) ==
    [status |-> 200,
     detail |-> <<>>,
     body |-> <<[words |-> ws,
                 total_duration |-> total_duration(ws),
                 model_used |-> get_model_name(req.language),
                 refined |-> req.refine_endpoints]>>]

\* What a run of an external tool can come to.
ToolResults == {"ok", "nonzero", "timeout"}
Diagnostics == {"stderr A", "stderr B"}

\* Requests
Tone == [len |-> MaxBlocks * BlockLen, levels |-> [b \in 1 .. MaxBlocks |-> 1000]]
Decay ==
    [len |-> MaxBlocks * BlockLen - 1,
     levels |-> [b \in 1 .. MaxBlocks |-> IF b <= 2 THEN 1000 ELSE 0]]

\* audio is <<>> when audio_base64 does not decode, else <<the waveform>>.
Requests ==
    [language : {"en", "pt", "xx"},
     refine_endpoints : BOOLEAN,
     audio : {<<>>, <<Tone>>, <<Decay>>},
     transcript : {"a b"},
     sample_rate : SampleRates]

NoRequest ==
    [language |-> "", refine_endpoints |-> FALSE, audio |-> <<>>, transcript |-> "",
     sample_rate |-> 0]

\* What the engine can leave at output_path: nothing, a file textgrid cannot
\* read, or a TextGrid.
TwoWords == << <<"a">>, <<" ", "b", " ">> >>
EngineTextGrids ==
    {<<MkTier(<<"p", "h", "o", "n", "e", "s">>, TwoWords, 1),
       MkTier(<<"W", "o", "r", "D", "S">>, TwoWords, 2)>>,
     <<MkTier(<<"w", "o", "r", "d", "s">>, << <<>>, <<"a">> >>, 1)>>,
     <<MkTier(<<"w", "o", "r", "d", "s">>, << <<>>, <<" ", "\t">> >>, 1)>>,
     <<MkTier(<<"p", "h", "o", "n", "e", "s">>, TwoWords, 1)>>,
     <<>>}
EngineOutputs ==
    {[kind |-> "absent", tg |-> <<>>], [kind |-> "garbage", tg |-> <<>>]}
        \cup {[kind |-> "textgrid", tg |-> tg] : tg \in EngineTextGrids}

NoHist ==
    [steps |-> <<>>, created |-> {}, cause |-> "none", diag |-> "none",
     textgrid |-> <<>>, parsed |-> <<>>]

\* History: a step begins; a path (<<dir, ".">> for a directory) is created.
Begin(h, step) == [h EXCEPT !.steps = Append(@, step)]
Created(h, path) == [h EXCEPT !.created = @ \cup {path}]

Invocations == {1}

InitPipeline ==
    /\ aligner = [ready |-> FALSE, available_languages |-> <<>>]
    /\ pc = [i \in Invocations |-> "idle"]
    /\ request = [i \in Invocations |-> NoRequest]
    /\ outer = [i \in Invocations |-> "none"]
    /\ inner = [i \in Invocations |-> "none"]
    /\ words = [i \in Invocations |-> <<>>]
    /\ outcome = [i \in Invocations |-> NoOutcome]
    /\ disk = [dirs |-> [n \in DirNames |-> 0], files |-> [p \in Paths |-> NoFile]]
    /\ hist = [i \in Invocations |-> NoHist]

\* Mutant of Raise: the handler answers with the words it has so far.
RaiseReturningWords(i, e, d, h, cause, diag) ==
    /\ pc' = [pc EXCEPT ![i] = "failed"]
    /\ outcome' = [outcome EXCEPT ![i] = AlignResponse(request[i], words[i])]
    /\ disk' = d
    /\ hist' = [hist EXCEPT ![i] = [h EXCEPT !.cause = cause, !.diag = diag]]

\* Mutant of Raise: a failed run of ffmpeg or of mfa is started again.
RaiseUnlessTool(i, e, d, h, cause, diag) ==
    IF cause \in {"resample_nonzero", "resample_timeout", "engine_nonzero", "engine_timeout"}
    THEN /\ pc' = pc
         /\ outcome' = outcome
         /\ disk' = disk
         /\ hist' = [hist EXCEPT ![i] = Begin(hist[i], hist[i].steps[Len(hist[i].steps)])]
    ELSE /\ pc' = [pc EXCEPT ![i] = "failed"]
         /\ outcome' = [outcome EXCEPT ![i] = AlignmentFailed(e)]
         /\ disk' = d
         /\ hist' = [hist EXCEPT ![i] = [h EXCEPT !.cause = cause, !.diag = diag]]

\* The invocation ends with the exception e, the disk left as d, the history as h.
Raise(i, e, d, h, cause, diag) ==
    /\ pc' = [pc EXCEPT ![i] = "failed"]
    /\ outcome' = [outcome EXCEPT ![i] = AlignmentFailed(e)]
    /\ disk' = d
    /\ hist' = [hist EXCEPT ![i] = [h EXCEPT !.cause = cause, !.diag = diag]]

\* lifespan: aligner = MFAAligner()
Lifespan ==
    /\ ~aligner.ready
    /\ aligner' = [ready |-> TRUE, available_languages |-> LanguageKeys]
    /\ UNCHANGED <<pc, request, outer, inner, words, outcome, disk, hist>>
    /\ UNCHANGED <<refine_call, parse_call>>

\* align_audio, up to the try: the language check.  Requests are served once
\* lifespan has set aligner, so "if not aligner" (503) is never taken.
ValidateOf(i, reqs) ==
    /\ aligner.ready
    /\ pc[i] = "idle"
    /\ \E req \in reqs :
        /\ request' = [request EXCEPT ![i] = req]
        /\ IF LanguageRejected(req.language)
           THEN /\ pc' = [pc EXCEPT ![i] = "failed"]
                /\ outcome' = [outcome EXCEPT ![i] = NotSupported(req.language)]
                /\ hist' = [hist EXCEPT ![i] =
                        [Begin(@, "Validating") EXCEPT !.cause = "unsupported_language"]]
           ELSE /\ pc' = [pc EXCEPT ![i] = "decode"]
                /\ hist' = [hist EXCEPT ![i] = Begin(@, "Validating")]
                /\ UNCHANGED outcome
    /\ UNCHANGED <<aligner, outer, inner, words, disk>>
    /\ UNCHANGED <<refine_call, parse_call>>

\* align_audio is entered with any request.
Validate(i) == ValidateOf(i, Requests)

\* audio_bytes = base64.b64decode(request.audio_base64)
Decode(i) ==
    /\ pc[i] = "decode"
    /\ IF request[i].audio = <<>>
       THEN Raise(i, OtherError("binascii.Error"), disk, hist[i], "bad_base64", "none")
       ELSE /\ pc' = [pc EXCEPT ![i] = "save"]
            /\ UNCHANGED <<outcome, disk, hist>>
    /\ UNCHANGED <<aligner, request, outer, inner, words>>
    /\ UNCHANGED <<refine_call, parse_call>>

\* with tempfile.TemporaryDirectory() as tmpdir: write input.wav
SaveAudio(i) ==
    /\ pc[i] = "save"
    /\ \E name \in DirNames :
        /\ FreshDir(disk, name)
        /\ outer' = [outer EXCEPT ![i] = name]
        /\ disk' = WriteFile(MkDir(disk, name, i), <<name, "input.wav">>, i,
                             request[i].audio[1])
        /\ hist' = [hist EXCEPT ![i] =
                Created(Created(@, <<name, ".">>), <<name, "input.wav">>)]
    /\ pc' = [pc EXCEPT ![i] = "align"]
    /\ UNCHANGED <<aligner, request, inner, words, outcome>>
    /\ UNCHANGED <<refine_call, parse_call>>

\* MFAAligner.align, up to the resample: the language check and the tmpdir.
EnterAlign(i) ==
    /\ pc[i] = "align"
    /\ IF LanguageUnknown(request[i].language)
       THEN /\ Raise(i, ValueError(<<"Unsupported language: ", request[i].language>>),
                     LeaveOuter(disk, i), hist[i], "unsupported_language", "none")
            /\ UNCHANGED inner
       ELSE /\ \E name \in DirNames :
                /\ FreshDir(disk, name)
                /\ inner' = [inner EXCEPT ![i] = name]
                /\ disk' = MkDir(disk, name, i)
                /\ hist' = [hist EXCEPT ![i] = Created(@, <<name, ".">>)]
            /\ pc' = [pc EXCEPT ![i] = "resample"]
            /\ UNCHANGED outcome
    /\ UNCHANGED <<aligner, request, outer, words>>
    /\ UNCHANGED <<refine_call, parse_call>>

\* _resample_audio_ffmpeg: one run of ffmpeg under a 60 s timeout.  A failed
\* run may have left its output file behind.
Resample(i) ==
    /\ pc[i] = "resample"
    /\ \E result \in ToolResults, stderr \in Diagnostics, wrote \in BOOLEAN :
        LET path == <<inner[i], "audio.wav">>
            h == Begin(hist[i], "Resampling")
            written == WriteFile(disk, path, i, "pcm16k")
        IN  CASE result = "ok" ->
                    /\ wrote
                    /\ pc' = [pc EXCEPT ![i] = "transcript"]
                    /\ disk' = written
                    /\ hist' = [hist EXCEPT ![i] = Created(h, path)]
                    /\ UNCHANGED outcome
              [] result = "timeout" ->
                    Raise(i, TimeoutExpired("ffmpeg", "60"),
                          LeaveInner(IF wrote THEN written ELSE disk, i),
                          IF wrote THEN Created(h, path) ELSE h,
                          "resample_timeout", "none")
              [] result = "nonzero" ->
                    Raise(i, ResampleFailed(stderr),
                          LeaveInner(IF wrote THEN written ELSE disk, i),
                          IF wrote THEN Created(h, path) ELSE h,
                          "resample_nonzero", stderr)
    /\ UNCHANGED <<aligner, request, outer, inner, words>>
    /\ UNCHANGED <<refine_call, parse_call>>

\* Mutant of WriteTranscript: mfa is reached without the transcript written.
WriteTranscriptSkipped(i) ==
    /\ pc[i] = "transcript"
    /\ pc' = [pc EXCEPT ![i] = "mfa"]
    /\ UNCHANGED <<aligner, request, outer, inner, words, outcome, disk, hist>>
    /\ UNCHANGED <<refine_call, parse_call>>

\* with open(transcript_path, "w") as f: f.write(transcript)
WriteTranscript(i) ==
    /\ pc[i] = "transcript"
    /\ disk' = WriteFile(disk, <<inner[i], "audio.txt">>, i, request[i].transcript)
    /\ hist' = [hist EXCEPT ![i] = Created(@, <<inner[i], "audio.txt">>)]
    /\ pc' = [pc EXCEPT ![i] = "mfa"]
    /\ UNCHANGED <<aligner, request, outer, inner, words, outcome>>
    /\ UNCHANGED <<refine_call, parse_call>>

\* _run_mfa: one run of mfa align_one under a 300 s timeout.
RunMfa(i) ==
    /\ pc[i] = "mfa"
    /\ \E result \in ToolResults, stderr \in Diagnostics, out \in EngineOutputs :
        LET path == <<inner[i], "audio.TextGrid">>
            h == Begin(hist[i], "Invoking")
            wrote == out.kind # "absent"
            written == WriteFile(disk, path, i, out)
            hw == IF wrote THEN Created(h, path) ELSE h
        IN  CASE result = "ok" ->
                    /\ pc' = [pc EXCEPT ![i] = "check_output"]
                    /\ disk' = IF wrote THEN written ELSE disk
                    /\ hist' = [hist EXCEPT ![i] = hw]
                    /\ UNCHANGED outcome
              [] result = "timeout" ->
                    Raise(i, TimeoutExpired("mfa", "300"),
                          LeaveInner(IF wrote THEN written ELSE disk, i), hw,
                          "engine_timeout", "none")
              [] result = "nonzero" ->
                    Raise(i, MfaFailed(stderr),
                          LeaveInner(IF wrote THEN written ELSE disk, i), hw,
                          "engine_nonzero", stderr)
    /\ UNCHANGED <<aligner, request, outer, inner, words>>
    /\ UNCHANGED <<refine_call, parse_call>>

\* if not os.path.exists(output_textgrid): raise RuntimeError(...)
CheckOutput(i) ==
    /\ pc[i] = "check_output"
    /\ IF ~Exists(disk, <<inner[i], "audio.TextGrid">>)
       THEN Raise(i, RuntimeError(<<"MFA did not produce output: ", "audio.TextGrid">>),
                  LeaveInner(disk, i), hist[i], "missing_output", "none")
       ELSE /\ pc' = [pc EXCEPT ![i] = "parse"]
            /\ UNCHANGED <<outcome, disk, hist>>
    /\ UNCHANGED <<aligner, request, outer, inner, words>>
    /\ UNCHANGED <<refine_call, parse_call>>

\* words = self._parse_textgrid(output_textgrid); return words (the with
\* block of align ends, its tmpdir is removed).
Parse(i) ==
    /\ pc[i] = "parse"
    /\ LET file == disk.files[<<inner[i], "audio.TextGrid">>].data[1]
           h == Begin(hist[i], "Parsing")
       IN  IF file.kind = "garbage"
           THEN /\ Raise(i, OtherError("TextGridError"), LeaveInner(disk, i), h,
                         "parse_error", "none")
                /\ UNCHANGED words
           ELSE /\ words' = [words EXCEPT ![i] = parse_textgrid(file.tg)]
                /\ disk' = RemoveTree(disk, inner[i])
                /\ hist' = [hist EXCEPT ![i] =
                        [h EXCEPT !.textgrid = file.tg, !.parsed = parse_textgrid(file.tg)]]
                /\ pc' = [pc EXCEPT ![i] = "refine"]
                /\ UNCHANGED outcome
    /\ UNCHANGED <<aligner, request, outer, inner>>
    /\ UNCHANGED <<refine_call, parse_call>>

\* Mutant of ShouldRefine: the request's flag is not consulted.
ShouldRefineIgnoringFlag(req, ws) == ws # <<>>

\* if request.refine_endpoints and words
ShouldRefine(req, ws) == req.refine_endpoints /\ ws # <<>>

\* if request.refine_endpoints and words: words = refine_word_endpoints(...)
\* librosa.load reads input.wav back and can fail.
Refine(i) ==
    /\ pc[i] = "refine"
    /\ IF ShouldRefine(request[i], words[i])
       THEN \E loaded \in BOOLEAN :
                LET h == Begin(hist[i], "Refining")
                    path == <<outer[i], "input.wav">>
                IN  IF ~loaded \/ ~Exists(disk, path)
                    THEN /\ Raise(i, OtherError("LibrosaError"), LeaveOuter(disk, i), h,
                                  "refine_error", "none")
                         /\ UNCHANGED words
                    ELSE /\ words' = [words EXCEPT ![i] =
                                refine_word_endpoints(disk.files[path].data[1],
                                                      request[i].sample_rate, words[i])]
                         /\ hist' = [hist EXCEPT ![i] = h]
                         /\ pc' = [pc EXCEPT ![i] = "respond"]
                         /\ UNCHANGED <<outcome, disk>>
       ELSE /\ pc' = [pc EXCEPT ![i] = "respond"]
            /\ UNCHANGED <<words, outcome, disk, hist>>
    /\ UNCHANGED <<aligner, request, outer, inner>>
    /\ UNCHANGED <<refine_call, parse_call>>

\* return AlignResponse(...) (the with block of align_audio ends, its tmpdir
\* is removed).
Respond(i) ==
    /\ pc[i] = "respond"
    /\ outcome' = [outcome EXCEPT ![i] = AlignResponse(request[i], words[i])]
    /\ disk' = RemoveTree(disk, outer[i])
    /\ pc' = [pc EXCEPT ![i] = "done"]
    /\ UNCHANGED <<aligner, request, outer, inner, words, hist>>
    /\ UNCHANGED <<refine_call, parse_call>>

Step(i) ==
    \/ Validate(i)
    \/ Decode(i)
    \/ SaveAudio(i)
    \/ EnterAlign(i)
    \/ Resample(i)
    \/ WriteTranscript(i)
    \/ RunMfa(i)
    \/ CheckOutput(i)
    \/ Parse(i)
    \/ Refine(i)
    \/ Respond(i)

Init == InitPipeline /\ refine_call = NoCall /\ parse_call = NoParse

Next ==
    \/ Lifespan
    \/ \E i \in Invocations : Step(i)

-----------------------------------------------------------------------------
(* Direct calls of the refiner and of the parser *)

InitRefine ==
    /\ InitPipeline
    /\ parse_call = NoParse
    /\ \E y \in Waveforms, sr \in SampleRates :
        \E ws \in WordLists(sr) :
            refine_call = [at |-> "called", y |-> <<y>>, sr |-> sr, words |-> ws, ret |-> <<>>]

CallRefine ==
    /\ refine_call.at = "called"
    /\ refine_call' = [refine_call EXCEPT
            !.at = "returned",
            !.ret = <<refine_word_endpoints(refine_call.y[1], refine_call.sr,
                                            refine_call.words)>>]
    /\ UNCHANGED <<parse_call, pipeline_vars>>

InitParse ==
    /\ InitPipeline
    /\ refine_call = NoCall
    /\ \E tg \in TextGrids : parse_call = [at |-> "called", tg |-> tg, ret |-> <<>>]

CallParse ==
    /\ parse_call.at = "called"
    /\ parse_call' = [parse_call EXCEPT
            !.at = "returned", !.ret = <<parse_textgrid(parse_call.tg)>>]
    /\ UNCHANGED <<refine_call, pipeline_vars>>

-----------------------------------------------------------------------------
(* Concurrent invocations: requests served at the same time, by workers that
   share the file system *)

ConcurrentInvocations == {1, 2}

\* The requests of concurrent invocations: each invocation sends its own audio.
ConcurrentRequests(i) ==
    [language : {"en"},
     refine_endpoints : {TRUE},
     audio : {IF i = 1 THEN <<Tone>> ELSE <<Decay>>},
     transcript : {"a b"},
     sample_rate : SampleRates]

InitConcurrent ==
    /\ aligner = [ready |-> FALSE, available_languages |-> <<>>]
    /\ pc = [i \in ConcurrentInvocations |-> "idle"]
    /\ request = [i \in ConcurrentInvocations |-> NoRequest]
    /\ outer = [i \in ConcurrentInvocations |-> "none"]
    /\ inner = [i \in ConcurrentInvocations |-> "none"]
    /\ words = [i \in ConcurrentInvocations |-> <<>>]
    /\ outcome = [i \in ConcurrentInvocations |-> NoOutcome]
    /\ disk = [dirs |-> [n \in DirNames |-> 0], files |-> [p \in Paths |-> NoFile]]
    /\ hist = [i \in ConcurrentInvocations |-> NoHist]
    /\ refine_call = NoCall
    /\ parse_call = NoParse

ValidateConcurrent(i) == ValidateOf(i, ConcurrentRequests(i))

StepConcurrent(i) ==
    \/ ValidateConcurrent(i)
    \/ Decode(i)
    \/ SaveAudio(i)
    \/ EnterAlign(i)
    \/ Resample(i)
    \/ WriteTranscript(i)
    \/ RunMfa(i)
    \/ CheckOutput(i)
    \/ Parse(i)
    \/ Refine(i)
    \/ Respond(i)

NextConcurrent ==
    \/ Lifespan
    \/ \E i \in ConcurrentInvocations : StepConcurrent(i)

vars == <<aligner, pc, request, outer, inner, words, outcome, disk, hist,
          refine_call, parse_call>>

Spec == Init /\ [][Next]_vars

SpecRefine == InitRefine /\ [][CallRefine]_vars

SpecParse == InitParse /\ [][CallParse]_vars

SpecConcurrent == InitConcurrent /\ [][NextConcurrent]_vars

-----------------------------------------------------------------------------
(* Properties of refine_word_endpoints *)

Returned == refine_call.at = "returned"
RIn(k) == refine_call.words[k]
ROut(k) == refine_call.ret[1][k]
RWords == DOMAIN refine_call.words

\* The search window of word k yields at least one analysis frame.
Analysed(k) ==
    LET y == refine_call.y[1]
        sr == refine_call.sr
    IN  /\ end_sample(y, sr, RIn(k)) > start_sample(sr, RIn(k))
        /\ SegmentLen(y, sr, RIn(k)) >= frame_samples(sr)

\* No frame of the search window of word k is below the silence threshold.
Sustained(k) == silence_frames(refine_call.y[1], refine_call.sr, RIn(k)) = {}

\* C1 (as claimed): the end of every returned word is at or after the
\* original end of that word.
C1_MonotonicRefinement ==
    Returned => \A k \in RWords : ROut(k).end >= RIn(k).end

\* C2 (as claimed): on every path, refined end <= original end + search window
\* + padding, and refined end <= total signal duration.
C2_BoundedRefinement ==
    Returned =>
        \A k \in RWords :
            /\ ROut(k).end <= RIn(k).end + (search_window_ms + padding_ms) * 10
            /\ ROut(k).end * refine_call.sr <= Duration(refine_call.y[1])

-----------------------------------------------------------------------------
(* Properties of _parse_textgrid *)

Parsed == parse_call.at = "returned"

\* The label holds nothing but whitespace (an empty label included).
Blank(mark) == \A i \in DOMAIN mark : mark[i] \in Whitespace

\* t is mark without its leading and trailing whitespace.
IsTrimOf(t, mark) ==
    \E a \in 1 .. Len(mark) + 1 : \E b \in 0 .. Len(mark) :
        /\ t = SubSeq(mark, a, b)
        /\ \A i \in 1 .. a - 1 : mark[i] \in Whitespace
        /\ \A i \in b + 1 .. Len(mark) : mark[i] \in Whitespace
        /\ t # <<>> => t[1] \notin Whitespace /\ t[Len(t)] \notin Whitespace

\* C8: the parsed word list is exactly the intervals of the first tier named
\* "words" (case-insensitively) whose label is not blank, in tier order, each
\* with its label trimmed (and its times rounded to 4 decimals); no other tier
\* contributes.
C8_SilenceFiltering ==
    Parsed =>
        LET tg == parse_call.tg
            out == parse_call.ret[1]
            matching == {p \in DOMAIN tg : Lower(tg[p].name) = WordsTierName}
        IN  IF matching = {} THEN out = <<>>
            ELSE LET ivs == tg[MinOf(matching)].intervals
                     kept == {j \in DOMAIN ivs : ~Blank(ivs[j].mark)}
                     nth(k) == CHOOSE j \in kept : Cardinality({i \in kept : i <= j}) = k
                 IN  /\ Len(out) = Cardinality(kept)
                     /\ \A k \in DOMAIN out :
                            /\ IsTrimOf(out[k].word, ivs[nth(k)].mark)
                            /\ out[k].start = Round4(ivs[nth(k)].minTime, TimeUnitsPerTick)
                            /\ out[k].end = Round4(ivs[nth(k)].maxTime, TimeUnitsPerTick)

\* C8 witness: a parse that dropped a blank interval, kept and trimmed a padded
\* label after it, and skipped a later tier that also matches.
C8_Witness ==
    /\ Parsed
    /\ Len(parse_call.tg) >= 2
    /\ IsWordsTier(parse_call.tg[1]) /\ IsWordsTier(parse_call.tg[2])
    /\ Len(parse_call.tg[1].intervals) >= 2
    /\ Blank(parse_call.tg[1].intervals[1].mark)
    /\ parse_call.tg[1].intervals[2].mark = <<" ", "b", " ">>
    /\ Len(parse_call.ret[1]) = 1
    /\ parse_call.ret[1][1].word = <<"b">>

-----------------------------------------------------------------------------
(* Witnesses and amended statements for refine_word_endpoints *)

\* C1 failing input: a word whose reported end lies in the last 15 ms before
\* or after the end of the audio, so that its window is analysed and the new
\* end is clamped to the duration.
C1_FailingInput ==
    Returned /\ \E k \in RWords :
        /\ Analysed(k)
        /\ RIn(k).end * refine_call.sr > Duration(refine_call.y[1])
        /\ ROut(k).end < RIn(k).end

-----------------------------------------------------------------------------
(* Properties of the pipeline *)

Terminated(i) == pc[i] \in {"done", "failed"}
Began(i, step) == step \in Range(hist[i].steps)
OwnedPaths(i) == {p \in Paths : disk.files[p].by = i}
OwnedDirs(i) == {n \in DirNames : disk.dirs[n] = i}

\* C3: when an invocation has terminated, in Done or in Failed, nothing it
\* created (directory, input audio, resampled audio, transcript, TextGrid) is
\* left on the disk.
C3_GuaranteedCleanup ==
    \A i \in Invocations :
        Terminated(i) =>
            /\ OwnedPaths(i) = {} /\ OwnedDirs(i) = {}
            /\ \A p \in hist[i].created :
                IF p[2] = "." THEN disk.dirs[p[1]] = 0 ELSE ~Exists(disk, p)

\* C3 witness: an invocation that failed in the engine step, with the resampled
\* audio, the transcript and a TextGrid written.
C3_Witness ==
    \E i \in Invocations :
        /\ pc[i] = "failed"
        /\ hist[i].cause = "engine_timeout"
        /\ {p[2] : p \in hist[i].created} =
                {".", "input.wav", "audio.wav", "audio.txt", "audio.TextGrid"}

\* C4: a request whose language is not in the registry ends with the
\* validation error (status 400); it creates nothing on the disk and runs
\* neither ffmpeg nor mfa.
C4_UnsupportedLanguage ==
    \A i \in Invocations :
        pc[i] # "idle" /\ request[i].language \notin DOMAIN LANGUAGE_MODELS =>
            /\ pc[i] = "failed"
            /\ outcome[i].status = 400
            /\ outcome[i].body = <<>>
            /\ hist[i].created = {}
            /\ OwnedPaths(i) = {} /\ OwnedDirs(i) = {}
            /\ ~Began(i, "Resampling") /\ ~Began(i, "Invoking")

\* C4 witness: a request for an unregistered language has been answered.
C4_Witness ==
    \E i \in Invocations :
        /\ request[i].language = "xx"
        /\ pc[i] = "failed"
        /\ hist[i].cause = "unsupported_language"

\* C5: when mfa exits with a non-zero status, the invocation fails with an
\* error whose detail ends with mfa's stderr, verbatim; parsing and refinement
\* never begin and no word list is in the response.
C5_ToolFailurePropagation ==
    \A i \in Invocations :
        hist[i].cause = "engine_nonzero" =>
            /\ pc[i] = "failed"
            /\ outcome[i].status = 500
            /\ outcome[i].detail = <<"Alignment failed: ", "MFA failed: ", hist[i].diag>>
            /\ hist[i].diag \in Diagnostics
            /\ outcome[i].body = <<>>
            /\ ~Began(i, "Parsing") /\ ~Began(i, "Refining")

\* C5 witness: mfa has exited with a non-zero status and stderr B.
C5_Witness ==
    \E i \in Invocations :
        /\ hist[i].cause = "engine_nonzero"
        /\ hist[i].diag = "stderr B"
        /\ Began(i, "Invoking")

\* The kind of an error as the caller of align_audio sees it: an HTTPException
\* has a status code and a free text.
SurfacedKind(o) == o.status

\* C6 (as claimed): a timeout of ffmpeg or of mfa surfaces as a kind of error
\* different from the kind a non-zero exit of the same tool surfaces as.
C6_TimeoutDistinct ==
    \A i \in Invocations : \A stderr \in Diagnostics :
        /\ hist[i].cause = "resample_timeout" =>
                SurfacedKind(outcome[i]) # SurfacedKind(AlignmentFailed(ResampleFailed(stderr)))
        /\ hist[i].cause = "engine_timeout" =>
                SurfacedKind(outcome[i]) # SurfacedKind(AlignmentFailed(MfaFailed(stderr)))

\* C7 (as claimed): when the TextGrid that was parsed has no tier named "words"
\* (case-insensitively), the invocation ends in Failed, not in a response
\* with a word list.
C7_MissingWordTierFails ==
    \A i \in Invocations :
        (/\ Terminated(i)
         /\ Began(i, "Parsing")
         /\ hist[i].cause # "parse_error"
         /\ \A p \in DOMAIN hist[i].textgrid : ~IsWordsTier(hist[i].textgrid[p]))
            => pc[i] = "failed" /\ outcome[i].body = <<>>

\* C10: an invocation that failed, at whatever step, answers with an error
\* and no body: the response holds a word list only when the invocation is
\* done and nothing failed.
C10_NoPartialResults ==
    \A i \in Invocations :
        /\ pc[i] = "failed" => outcome[i].status \in {400, 500} /\ outcome[i].body = <<>>
        /\ hist[i].cause # "none" => pc[i] = "failed" /\ outcome[i].body = <<>>
        /\ outcome[i].body # <<>> => pc[i] = "done" /\ outcome[i].status = 200

\* C10 witness: the refinement step failed after parsing had produced words.
C10_Witness ==
    \E i \in Invocations :
        /\ pc[i] = "failed"
        /\ hist[i].cause = "refine_error"
        /\ hist[i].parsed # <<>>
        /\ words[i] # <<>>

-----------------------------------------------------------------------------
(* Properties of the response *)

Done(i) == pc[i] = "done"
Body(i) == outcome[i].body[1]

\* C11: when the request sets refine_endpoints to false, the refinement step
\* never begins in that invocation, and the word list of the response is the
\* list the parser produced: same words, starts and ends, in the same order.
C11_RefinementOptOut ==
    \A i \in Invocations :
        (pc[i] # "idle" /\ ~request[i].refine_endpoints) =>
            /\ ~Began(i, "Refining")
            /\ (pc[i] \in {"refine", "respond", "done"} => words[i] = hist[i].parsed)
            /\ (Done(i) => Body(i).words = hist[i].parsed)

\* C11 witness: a request that opted out is done, the parser had produced
\* words and the audio is one the refiner would have moved an end on.
C11_Witness ==
    \E i \in Invocations :
        /\ Done(i)
        /\ ~request[i].refine_endpoints
        /\ Len(hist[i].parsed) = 2
        /\ refine_word_endpoints(request[i].audio[1], request[i].sample_rate,
                                 hist[i].parsed) # hist[i].parsed
        /\ Body(i).words = hist[i].parsed

\* C12 (as claimed): in every successful response, refined is true exactly
\* when the refinement step was executed for that request, an empty parsed
\* word list included.
C12_RefinedFlagReportsRefinement ==
    \A i \in Invocations :
        Done(i) => (Body(i).refined <=> Began(i, "Refining"))

\* C12 failing input: refinement was asked for and the parser returned no
\* word; the step was skipped and the response says refined.
C12_FailingInput ==
    \E i \in Invocations :
        /\ Done(i)
        /\ request[i].refine_endpoints
        /\ hist[i].parsed = <<>>
        /\ ~Began(i, "Refining")
        /\ Body(i).refined

\* C13: in every successful response, total_duration is the end of the last
\* word of the returned word list (the list after refinement, when it ran),
\* and 0 when the returned list is empty.
C13_TotalDuration ==
    \A i \in Invocations :
        Done(i) =>
            LET ws == Body(i).words
            IN  /\ ws = words[i]
                /\ ws = <<>> => Body(i).total_duration = 0
                /\ ws # <<>> => Body(i).total_duration = ws[Len(ws)].end

\* C13 witness: a response with two words whose last end was moved by the
\* refinement, so that total_duration is not the end the parser reported.
C13_Witness ==
    \E i \in Invocations :
        /\ Done(i)
        /\ Began(i, "Refining")
        /\ Len(Body(i).words) = 2
        /\ Body(i).words[2].end # hist[i].parsed[2].end
        /\ Body(i).words[1].end # Body(i).words[2].end
        /\ Body(i).total_duration = Body(i).words[2].end

\* C13 witness of the empty case: a response without words.
C13_WitnessEmpty ==
    \E i \in Invocations :
        Done(i) /\ Body(i).words = <<>> /\ Body(i).total_duration = 0

-----------------------------------------------------------------------------
(* Properties of the sequence of steps *)

\* How many times the step was begun in invocation i.
Starts(i, step) == Cardinality({k \in DOMAIN hist[i].steps : hist[i].steps[k] = step})

LastStep(i) == hist[i].steps[Len(hist[i].steps)]

ToolOf(cause) ==
    IF cause \in {"resample_nonzero", "resample_timeout"} THEN "Resampling" ELSE "Invoking"

ToolCauses == {"resample_nonzero", "resample_timeout", "engine_nonzero", "engine_timeout"}

\* C14: in every invocation ffmpeg is started at most once and mfa at most
\* once; after a non-zero exit or a timeout of either, the invocation has
\* failed with that run as its last step and the error is the response.
C14_NoAutomaticRetries ==
    \A i \in Invocations :
        /\ Starts(i, "Resampling") <= 1
        /\ Starts(i, "Invoking") <= 1
        /\ hist[i].cause \in ToolCauses =>
                /\ pc[i] = "failed"
                /\ LastStep(i) = ToolOf(hist[i].cause)
                /\ Starts(i, ToolOf(hist[i].cause)) = 1
                /\ outcome[i].status = 500
                /\ outcome[i].body = <<>>

\* C14 witness: ffmpeg timed out; it was started once, mfa never.
C14_Witness ==
    \E i \in Invocations :
        /\ pc[i] = "failed"
        /\ hist[i].cause = "resample_timeout"
        /\ Starts(i, "Resampling") = 1
        /\ Starts(i, "Invoking") = 0

StepOrder == <<"Validating", "Resampling", "Invoking", "Parsing", "Refining">>

IsPrefix(a, b) == Len(a) <= Len(b) /\ a = SubSeq(b, 1, Len(a))

\* The step at which an invocation that failed with this cause stopped.
StepOfCause(cause) ==
    CASE cause \in {"unsupported_language", "bad_base64"} -> "Validating"
      [] cause \in {"resample_nonzero", "resample_timeout"} -> "Resampling"
      [] cause \in {"engine_nonzero", "engine_timeout", "missing_output"} -> "Invoking"
      [] cause = "parse_error" -> "Parsing"
      [] cause = "refine_error" -> "Refining"

CreatedNames(i) == {q[2] : q \in {c \in hist[i].created : c[1] = inner[i]}}

\* C15: the steps of an invocation are begun in the order Validating,
\* Resampling, Invoking, Parsing, Refining, each at most once and none but
\* Refining left out; mfa is started only after ffmpeg exited with status 0
\* and the transcript was written, parsing only after mfa exited with status
\* 0, refining only after the parser returned; an invocation that failed
\* stopped at the step that failed, and a finished one went through Parsing.
C15_StepOrdering ==
    \A i \in Invocations :
        /\ IsPrefix(hist[i].steps, StepOrder)
        /\ Began(i, "Invoking") =>
                /\ hist[i].cause \notin {"resample_nonzero", "resample_timeout"}
                /\ Began(i, "Resampling")
                /\ "audio.txt" \in CreatedNames(i)
        /\ Began(i, "Parsing") =>
                hist[i].cause \notin {"engine_nonzero", "engine_timeout", "missing_output"}
        /\ Began(i, "Refining") =>
                /\ hist[i].cause \notin {"parse_error"}
                /\ hist[i].parsed = parse_textgrid(hist[i].textgrid)
                /\ hist[i].parsed # <<>>
        /\ pc[i] = "failed" =>
                /\ hist[i].cause # "none"
                /\ LastStep(i) = StepOfCause(hist[i].cause)
        /\ hist[i].cause # "none" => pc[i] = "failed"
        /\ Done(i) => Began(i, "Parsing")

\* C15 witness: an invocation went through all five steps and is done.
C15_Witness ==
    \E i \in Invocations : Done(i) /\ hist[i].steps = StepOrder

\* C15 witness of a failure: the parser failed; refinement never began.
C15_WitnessFailed ==
    \E i \in Invocations :
        /\ pc[i] = "failed"
        /\ hist[i].steps = <<"Validating", "Resampling", "Invoking", "Parsing">>
        /\ request[i].refine_endpoints

-----------------------------------------------------------------------------
(* Properties of the missing-output check *)

\* mfa has exited with status 0 in invocation i without writing the TextGrid,
\* and align has gone past its check of the output path.
EngineLeftNoOutput(i) ==
    /\ Began(i, "Invoking")
    /\ hist[i].cause \notin {"engine_nonzero", "engine_timeout"}
    /\ "audio.TextGrid" \notin CreatedNames(i)
    /\ pc[i] # "check_output"

\* C16: when mfa exits with status 0 but the TextGrid does not exist, the
\* invocation fails with the missing-output error; the parser is never run
\* and the response holds no word list.
C16_MissingOutputArtifact ==
    \A i \in Invocations :
        EngineLeftNoOutput(i) =>
            /\ pc[i] = "failed"
            /\ hist[i].cause = "missing_output"
            /\ outcome[i].status = 500
            /\ outcome[i].detail =
                    <<"Alignment failed: ", "MFA did not produce output: ", "audio.TextGrid">>
            /\ outcome[i].body = <<>>
            /\ ~Began(i, "Parsing") /\ ~Began(i, "Refining")
            /\ hist[i].parsed = <<>>

\* C16 witness: mfa exited with status 0, wrote nothing, and the invocation
\* has been answered.
C16_Witness ==
    \E i \in Invocations :
        /\ EngineLeftNoOutput(i)
        /\ Terminated(i)
        /\ LastStep(i) = "Invoking"
        /\ "audio.txt" \in CreatedNames(i)

-----------------------------------------------------------------------------
(* Properties of the refiner's treatment of each word *)

\* search_end - search_start of word k, in units of 1/(TicksPerSecond * sr) s.
WindowLength(k) ==
    search_end(refine_call.y[1], refine_call.sr, RIn(k)) - search_start(refine_call.sr, RIn(k))

\* The duration of one analysis frame, in the same units.
FrameLength == frame_samples(refine_call.sr) * TicksPerSecond

C18_RefinerFrameCondition ==
    /\ [](Returned =>
            /\ Len(refine_call.ret[1]) = Len(refine_call.words)
            /\ \A k \in RWords :
                    /\ ROut(k).word = RIn(k).word
                    /\ ROut(k).start = RIn(k).start
                    /\ DOMAIN ROut(k) = {"word", "start", "end"})
    /\ [][/\ refine_call'.words = refine_call.words
           /\ refine_call'.y = refine_call.y
           /\ refine_call'.sr = refine_call.sr]_vars

\* C18 witness: two different words, the end of the first moved and the
\* second returned as it was.
C18_Witness ==
    /\ Returned
    /\ Len(refine_call.words) = 2
    /\ RIn(1).word # RIn(2).word
    /\ RIn(1).start # RIn(2).start
    /\ ROut(1).end # RIn(1).end
    /\ ROut(2) = RIn(2)

\* A boundary for the words around a given one: so far past the end of the
\* audio that the search window is empty.
FarEnd(sr) == NominalTicks(sr) + 300

\* The word list ws with every word but the one at position i given the end e
\* (and a start to go with it).
WithOthersAt(ws, i, e) ==
    [k \in DOMAIN ws |-> IF k = i THEN ws[k] ELSE MkWord(k + 1, e)]

\* C19: the refined end at position i is the same for every word list that
\* has the same original end at position i and is refined against the same
\* waveform.  Every list that is refined is compared with the list in which
\* the boundaries of all the other words are replaced, and with that list cut
\* after position i; two lists that agree at position i are compared with
\* the same lists.
C19_WordIndependence ==
    Returned =>
        \A i \in RWords :
            LET y == refine_call.y[1]
                sr == refine_call.sr
                others == WithOthersAt(refine_call.words, i, FarEnd(sr))
            IN  /\ refine_word_endpoints(y, sr, others)[i].end = ROut(i).end
                /\ refine_word_endpoints(y, sr, SubSeq(others, 1, i))[i].end = ROut(i).end

\* C19 witness: two analysed words with overlapping search windows, the
\* refined end of the first later than the original end of the second, and
\* the end of the second moved.
C19_Witness ==
    /\ Returned
    /\ Len(refine_call.words) = 2
    /\ Analysed(1) /\ Analysed(2)
    /\ ROut(1).end # RIn(1).end
    /\ ROut(1).end > RIn(2).end
    /\ ROut(2).end # RIn(2).end

\* WordTimestamp well-formedness of a word list: 0 <= start <= end for every
\* word, and starts ascending.
WellFormed(ws) ==
    /\ \A k \in DOMAIN ws : 0 <= ws[k].start /\ ws[k].start <= ws[k].end
    /\ \A k \in 1 .. Len(ws) - 1 : ws[k].start <= ws[k + 1].start

\* C20 (as claimed): when the word list given to the refinement is well
\* formed, the list it returns is too (end >= start for every word, starts
\* ascending), whatever the duration of the signal.
C20_WellFormednessPreserved ==
    Returned => (WellFormed(refine_call.words) => WellFormed(refine_call.ret[1]))

\* C20 failing input: a well-formed word that starts and ends after the end
\* of the audio, less than 15 ms after it, so that its window is analysed and
\* its end is cut back to the duration, before its start.
C20_FailingInput ==
    Returned /\ \E k \in RWords :
        /\ WellFormed(refine_call.words)
        /\ Analysed(k)
        /\ RIn(k).start * refine_call.sr > Duration(refine_call.y[1])
        /\ ROut(k).end < ROut(k).start

-----------------------------------------------------------------------------
(* Properties of concurrent invocations *)

\* The steps at which align_audio's tmpdir, and align's, are open.
OuterOpen(i) ==
    pc[i] \in {"align", "resample", "transcript", "mfa", "check_output", "parse",
               "refine", "respond"}
InnerOpen(i) == pc[i] \in {"resample", "transcript", "mfa", "check_output", "parse"}

\* The scratch directories invocation i works in.
Scratch(i) ==
    (IF OuterOpen(i) THEN {outer[i]} ELSE {}) \cup (IF InnerOpen(i) THEN {inner[i]} ELSE {})

\* The file holds what invocation i wrote to it.
Holds(i, path, content) == disk.files[path] = [by |-> i, data |-> <<content>>]

\* Every scratch directory of i is i's own and no other invocation's; the
\* artifacts i still needs are there as i wrote them.
OwnScratchIntact(i) ==
    /\ \A n \in Scratch(i) : disk.dirs[n] = i
    /\ \A j \in ConcurrentInvocations \ {i} : Scratch(i) \cap Scratch(j) = {}
    /\ \A q \in hist[i].created : q[1] \in {outer[i], inner[i]}
    /\ \A q \in Paths : disk.files[q].by = i => q[1] \in Scratch(i)
    /\ OuterOpen(i) => Holds(i, <<outer[i], "input.wav">>, request[i].audio[1])
    /\ pc[i] \in {"transcript", "mfa"} => Holds(i, <<inner[i], "audio.wav">>, "pcm16k")
    /\ pc[i] = "mfa" => Holds(i, <<inner[i], "audio.txt">>, request[i].transcript)
    /\ pc[i] = "parse" => disk.files[<<inner[i], "audio.TextGrid">>].by = i
    /\ (pc[i] \in {"respond", "done"} /\ Began(i, "Refining")) =>
            words[i] = refine_word_endpoints(request[i].audio[1], request[i].sample_rate,
                                             hist[i].parsed)

\* A step that is not a step of invocation j leaves j's directories, the
\* files in them and j's variables as they are.
OthersUntouched ==
    \A j \in ConcurrentInvocations :
        pc'[j] = pc[j] =>
            /\ \A n \in DirNames :
                    disk.dirs[n] = j =>
                        /\ disk'.dirs[n] = j
                        /\ \A f \in FileNames : disk'.files[<<n, f>>] = disk.files[<<n, f>>]
            /\ request'[j] = request[j] /\ words'[j] = words[j]
            /\ outer'[j] = outer[j] /\ inner'[j] = inner[j]
            /\ outcome'[j] = outcome[j]

\* A step of invocation i changes directories and files of its own only.
OnlyOwnWritten ==
    \A i \in ConcurrentInvocations :
        pc'[i] # pc[i] =>
            /\ \A n \in DirNames :
                    disk'.dirs[n] # disk.dirs[n] => i \in {disk.dirs[n], disk'.dirs[n]}
            /\ \A q \in Paths :
                    disk'.files[q] # disk.files[q] => i \in {disk.files[q].by, disk'.files[q].by}

\* After startup the registry is what lifespan loaded, and no step changes it.
RegistryLoaded ==
    aligner.ready =>
        /\ aligner.available_languages = LanguageKeys
        /\ Range(aligner.available_languages) = DOMAIN LANGUAGE_MODELS

\* C21: in every interleaving of concurrent invocations, each invocation
\* works in scratch directories of its own only; no step of one invocation,
\* its cleanup included, touches a directory or file of another; the input
\* audio of an invocation is there as it was written as long as its tmpdir
\* is open, the refinement step included; and the language registry is the
\* same in every state after startup.
C21_ConcurrentIsolation ==
    /\ [](\A i \in ConcurrentInvocations : OwnScratchIntact(i))
    /\ []RegistryLoaded
    /\ [][OthersUntouched /\ OnlyOwnWritten /\ (aligner.ready => aligner' = aligner)]_vars

\* C21 witness: invocation 1 is about to refine, its align tmpdir removed,
\* while invocation 2 is about to run mfa on its own artifacts; the two hold
\* different audio.
C21_Witness ==
    /\ DOMAIN pc = ConcurrentInvocations
    /\ pc[1] = "refine" /\ pc[2] = "mfa"
    /\ words[1] # <<>>
    /\ disk.dirs[inner[1]] = 0
    /\ Holds(1, <<outer[1], "input.wav">>, Tone)
    /\ Holds(2, <<outer[2], "input.wav">>, Decay)
    /\ Holds(2, <<inner[2], "audio.wav">>, "pcm16k")
    /\ Cardinality({outer[1], outer[2], inner[2]}) = 3

====
